---- MODULE Spec2Model ----
(***************************************************************************)
(* Model of the cloudflare_tunnel_route resource handlers                  *)
(* (internal/provider/resource_cloudflare_tunnel_route.go).                *)
(*                                                                         *)
(* A Go string is a sequence of atoms; the atom "/" is the one character   *)
(* the handlers split and join on.  The empty string is << >>.             *)
(*   d      : the schema.ResourceData record the handlers get and set      *)
(*   remote : the routes the remote service holds for the account          *)
(*   last   : the last operation: its outcome, the identifier Import was   *)
(*            given, the record at the moment Read was entered (mid, the   *)
(*            record the operation was handed when it did not reach Read), *)
(*            the record as its calls left it (left), whether that is the  *)
(*            record it was handed (kept), and what ListTunnelRoutes       *)
(*            answered (listed, first)                                     *)
(***************************************************************************)
EXTENDS Integers, Sequences, FiniteSets, TLC

VARIABLES d, remote, last

vars == <<d, remote, last>>

-----------------------------------------------------------------------------
(* Bounds of the model *)

NumVNets == 1
MaxRoutes == 1

-----------------------------------------------------------------------------
(* Strings *)

Empty == << >>
Slash == "/"

\* fmt.Sprintf("%s/%s", a, b)
Sprintf2(a, b) == a \o <<Slash>> \o b

\* strings.Index(s, "/"), 1-based; 0 when s holds no "/"
IndexSlash(s) ==
  IF \E i \in 1..Len(s) : s[i] = Slash
    THEN CHOOSE i \in 1..Len(s) : s[i] = Slash /\ \A j \in 1..(i - 1) : s[j] # Slash
    ELSE 0

\* strings.SplitN(s, "/", n) for n > 0: at most n pieces, the last one the
\* unsplit remainder
RECURSIVE SplitN(_, _)
SplitN(s, n) ==
  IF n <= 1 \/ IndexSlash(s) = 0
    THEN <<s>>
    ELSE <<SubSeq(s, 1, IndexSlash(s) - 1)>>
           \o SplitN(SubSeq(s, IndexSlash(s) + 1, Len(s)), n - 1)

\* the number of "/"-delimited segments of s
RECURSIVE CountSegments(_)
CountSegments(s) ==
  IF IndexSlash(s) = 0 THEN 1
  ELSE 1 + CountSegments(SubSeq(s, IndexSlash(s) + 1, Len(s)))

\* attributes[i] of Go, i counted from 0; out of range is a run-time panic
GoIndex(attributes, i) ==
  IF i + 1 \in 1..Len(attributes)
    THEN [panic |-> FALSE, val |-> attributes[i + 1]]
    ELSE [panic |-> TRUE, val |-> Empty]

-----------------------------------------------------------------------------
(* The values the model draws from *)

\* a network, and another one to change to; each is a CIDR with its slash
NetworkList == << <<"10.0.0.0", Slash, "26">>, <<"10.0.1.0", Slash, "26">> >>
VNetNames == <<"vnet-default", "vnet1", "vnet2", "vnet3">>

Account == <<"acct1">>
Networks == {NetworkList[i] : i \in 1..Len(NetworkList)}
VNetOf(i) == <<VNetNames[i]>>
VNets == {VNetOf(i) : i \in 1..NumVNets}
DefaultVNet == VNetOf(1)
\* a tunnel, and another one to change to
Tunnels == {<<"tun1">>, <<"tun2">>}
\* a configuration without a comment reads as "", one with a comment as text
Comments == {Empty, <<"note1">>}

\* the identifiers handed to Import: well formed with and without a virtual
\* network, and malformed with 1, 2 and 5 segments
ImportIds ==
  {<<"bad-id">>, Sprintf2(Account, <<"10.0.0.0">>)}
    \cup {Sprintf2(Account, n) : n \in Networks}
    \cup {Sprintf2(Sprintf2(Account, n), v) : n \in Networks, v \in VNets}
    \cup {Sprintf2(Sprintf2(Sprintf2(Account, n), v), <<"e">>) : n \in Networks, v \in VNets}

EmptyData ==
  [id |-> Empty, account_id |-> Empty, tunnel_id |-> Empty, network |-> Empty,
   comment |-> Empty, virtual_network_id |-> Empty]

NoRoute == [TunnelID |-> Empty, Network |-> Empty, Comment |-> Empty, VirtualNetworkID |-> Empty]

-----------------------------------------------------------------------------
(* The remote service behind cloudflare.API: one route per                 *)
(* (network, virtual network) in the account; a route sent without a       *)
(* virtual network lives in the default one, and every route the service   *)
(* returns carries its virtual network id.  fail is a transport or service *)
(* error of the call.                                                      *)

ResolveVNet(v) == IF v = Empty THEN DefaultVNet ELSE v

RoutesAt(rem, network, vnet) ==
  {r \in rem : r.Network = network /\ r.VirtualNetworkID = ResolveVNet(vnet)}

\* the order in which the service lists routes: by network, then by
\* virtual network
ListOrder ==
  [k \in 1..(Len(NetworkList) * NumVNets) |->
     <<NetworkList[((k - 1) \div NumVNets) + 1], VNetOf(((k - 1) % NumVNets) + 1)>>]

ListTunnelRoutes(rem, params, fail) ==
  LET hit(key) == /\ RoutesAt(rem, key[1], key[2]) # {}
                  /\ key[1] = params.NetworkSubset
                  /\ key[1] = params.NetworkSuperset
                  /\ (params.VirtualNetworkID # Empty => key[2] = params.VirtualNetworkID)
      keys == SelectSeq(ListOrder, hit)
  IN  IF fail THEN [err |-> TRUE, routes |-> << >>]
      ELSE [err |-> FALSE,
            routes |-> [i \in 1..Len(keys) |->
                          CHOOSE r \in RoutesAt(rem, keys[i][1], keys[i][2]) : TRUE]]

CreateTunnelRoute(rem, params, fail) ==
  LET route == [TunnelID |-> params.TunnelID, Network |-> params.Network,
                Comment |-> params.Comment,
                VirtualNetworkID |-> ResolveVNet(params.VirtualNetworkID)]
  IN  IF fail \/ RoutesAt(rem, params.Network, params.VirtualNetworkID) # {}
        THEN [err |-> TRUE, route |-> NoRoute, remote |-> rem]
        ELSE [err |-> FALSE, route |-> route, remote |-> rem \cup {route}]

UpdateTunnelRoute(rem, params, fail) ==
  LET old == RoutesAt(rem, params.Network, params.VirtualNetworkID)
      route == [TunnelID |-> params.TunnelID, Network |-> params.Network,
                Comment |-> params.Comment,
                VirtualNetworkID |-> ResolveVNet(params.VirtualNetworkID)]
  IN  IF fail \/ old = {}
        THEN [err |-> TRUE, route |-> NoRoute, remote |-> rem]
        ELSE [err |-> FALSE, route |-> route, remote |-> (rem \ old) \cup {route}]

DeleteTunnelRoute(rem, params, fail) ==
  LET old == RoutesAt(rem, params.Network, params.VirtualNetworkID)
  IN  IF fail \/ old = {}
        THEN [err |-> TRUE, remote |-> rem]
        ELSE [err |-> FALSE, remote |-> rem \ old]

-----------------------------------------------------------------------------
(* resourceCloudflareTunnelRouteRead *)

\* cloudflare.TunnelRoutesListParams built from the record
ListParams(dd) ==
  [AccountID |-> dd.account_id, NetworkSubset |-> dd.network,
   NetworkSuperset |-> dd.network, VirtualNetworkID |-> dd.virtual_network_id]

\* not found, with the d.SetId("") left out
ReadNotFoundKeepsId(dd) == dd

\* len(tunnelRoutes) < 1: d.SetId("")
ReadNotFound(dd) == [dd EXCEPT !.id = Empty]

\* the d.Set calls with virtual_network_id set whatever the record held
ReadSetAlwaysVNet(dd, tunnelRoute, virtualNetworkID) ==
  [dd EXCEPT !.tunnel_id = tunnelRoute.TunnelID,
             !.network = tunnelRoute.Network,
             !.comment = IF Len(tunnelRoute.Comment) > 0 THEN tunnelRoute.Comment ELSE @,
             !.virtual_network_id = tunnelRoute.VirtualNetworkID]

\* the d.Set calls with comment set whatever the route returned
ReadSetAlwaysComment(dd, tunnelRoute, virtualNetworkID) ==
  [dd EXCEPT !.tunnel_id = tunnelRoute.TunnelID,
             !.network = tunnelRoute.Network,
             !.comment = tunnelRoute.Comment,
             !.virtual_network_id = IF virtualNetworkID # Empty
                                      THEN tunnelRoute.VirtualNetworkID ELSE @]

\* the d.Set calls with network set from the route's TunnelID
ReadSetNetworkFromTunnel(dd, tunnelRoute, virtualNetworkID) ==
  [dd EXCEPT !.tunnel_id = tunnelRoute.TunnelID,
             !.network = tunnelRoute.TunnelID,
             !.comment = IF Len(tunnelRoute.Comment) > 0 THEN tunnelRoute.Comment ELSE @,
             !.virtual_network_id = IF virtualNetworkID # Empty
                                      THEN tunnelRoute.VirtualNetworkID ELSE @]

\* the d.Set calls for tunnelRoutes[0]; virtualNetworkID is the value read
\* from the record on entry
ReadSet(dd, tunnelRoute, virtualNetworkID) ==
  LET d1 == [dd EXCEPT !.tunnel_id = tunnelRoute.TunnelID]
      d2 == [d1 EXCEPT !.network = tunnelRoute.Network]
      d3 == IF Len(tunnelRoute.Comment) > 0
              THEN [d2 EXCEPT !.comment = tunnelRoute.Comment]
              ELSE d2
  IN  IF virtualNetworkID # Empty
        THEN [d3 EXCEPT !.virtual_network_id = tunnelRoute.VirtualNetworkID]
        ELSE d3

\* the handler with d.SetId("") also on a failed ListTunnelRoutes
resourceCloudflareTunnelRouteReadClearsOnError(dd, rem, failList) ==
  LET virtualNetworkID == dd.virtual_network_id
      resp == ListTunnelRoutes(rem, ListParams(dd), failList)
  IN  IF resp.err
        THEN [d |-> [dd EXCEPT !.id = Empty], err |-> TRUE, listed |-> "error",
              first |-> NoRoute]
      ELSE IF Len(resp.routes) < 1
        THEN [d |-> [dd EXCEPT !.id = Empty], err |-> FALSE, listed |-> "empty",
              first |-> NoRoute]
      ELSE [d |-> [dd EXCEPT !.tunnel_id = resp.routes[1].TunnelID,
                             !.network = resp.routes[1].Network,
                             !.comment = IF Len(resp.routes[1].Comment) > 0
                                           THEN resp.routes[1].Comment ELSE @,
                             !.virtual_network_id = IF virtualNetworkID # Empty
                                                      THEN resp.routes[1].VirtualNetworkID
                                                      ELSE @],
            err |-> FALSE, listed |-> "found", first |-> resp.routes[1]]

\* the whole handler: the record it leaves, whether it returns diagnostics,
\* and what ListTunnelRoutes answered
resourceCloudflareTunnelRouteRead(dd, rem, failList) ==
  LET virtualNetworkID == dd.virtual_network_id
      resp == ListTunnelRoutes(rem, ListParams(dd), failList)
  IN  IF resp.err
        THEN [d |-> dd, err |-> TRUE, listed |-> "error", first |-> NoRoute]
      ELSE IF Len(resp.routes) < 1
        THEN [d |-> ReadNotFound(dd), err |-> FALSE, listed |-> "empty", first |-> NoRoute]
      ELSE [d |-> ReadSet(dd, resp.routes[1], virtualNetworkID), err |-> FALSE,
            listed |-> "found", first |-> resp.routes[1]]

-----------------------------------------------------------------------------
(* resourceCloudflareTunnelRouteCreate *)

\* cloudflare.TunnelRoutesCreateParams
CreateParams(dd) ==
  [AccountID |-> dd.account_id, TunnelID |-> dd.tunnel_id, Network |-> dd.network,
   VirtualNetworkID |-> dd.virtual_network_id, Comment |-> dd.comment]

\* the identifier without the virtual network id
CreateIdNetworkOnly(network, virtualNetworkID) == network

\* the identifier Create sets from the created route's network
CreateId(network, virtualNetworkID) ==
  IF virtualNetworkID # Empty
    THEN Sprintf2(network, virtualNetworkID)
    ELSE network

resourceCloudflareTunnelRouteCreate(dd, rem, failCreate, failList) ==
  LET virtualNetworkID == dd.virtual_network_id
      resource == CreateParams(dd)
      resp == CreateTunnelRoute(rem, resource, failCreate)
      d1 == [dd EXCEPT !.id = CreateId(resp.route.Network, virtualNetworkID)]
      rd == resourceCloudflareTunnelRouteRead(d1, resp.remote, failList)
  IN  IF resp.err
        THEN [d |-> dd, remote |-> rem, outcome |-> "error", mid |-> dd,
              listed |-> "none", first |-> NoRoute]
        ELSE [d |-> rd.d, remote |-> resp.remote,
              outcome |-> IF rd.err THEN "error" ELSE "ok", mid |-> d1,
              listed |-> rd.listed, first |-> rd.first]

-----------------------------------------------------------------------------
(* resourceCloudflareTunnelRouteUpdate *)

\* the parameters with TunnelID read from account_id
UpdateParamsTunnelFromAccount(dd) ==
  [AccountID |-> dd.account_id, TunnelID |-> dd.account_id, Network |-> dd.network,
   Comment |-> dd.comment, VirtualNetworkID |-> dd.virtual_network_id]

\* cloudflare.TunnelRoutesUpdateParams: Comment starts "" and takes the
\* record's comment, which is "" when the configuration has none
UpdateParams(dd) ==
  LET resource == [AccountID |-> dd.account_id, TunnelID |-> dd.tunnel_id,
                   Network |-> dd.network, Comment |-> Empty,
                   VirtualNetworkID |-> dd.virtual_network_id]
  IN  [resource EXCEPT !.Comment = dd.comment]

resourceCloudflareTunnelRouteUpdate(dd, rem, failUpdate, failList) ==
  LET resource == UpdateParams(dd)
      resp == UpdateTunnelRoute(rem, resource, failUpdate)
      rd == resourceCloudflareTunnelRouteRead(dd, resp.remote, failList)
  IN  IF resp.err
        THEN [d |-> dd, remote |-> rem, outcome |-> "error", mid |-> dd,
              listed |-> "none", first |-> NoRoute]
        ELSE [d |-> rd.d, remote |-> resp.remote,
              outcome |-> IF rd.err THEN "error" ELSE "ok", mid |-> dd,
              listed |-> rd.listed, first |-> rd.first]

-----------------------------------------------------------------------------
(* resourceCloudflareTunnelRouteDelete *)

\* cloudflare.TunnelRoutesDeleteParams
DeleteParams(dd) ==
  [AccountID |-> dd.account_id, Network |-> dd.network,
   VirtualNetworkID |-> dd.virtual_network_id]

resourceCloudflareTunnelRouteDelete(dd, rem, failDelete) ==
  LET resource == DeleteParams(dd)
      resp == DeleteTunnelRoute(rem, resource, failDelete)
  IN  [d |-> dd, remote |-> resp.remote,
       outcome |-> IF resp.err THEN "error" ELSE "ok", mid |-> dd,
       listed |-> "none", first |-> NoRoute]

-----------------------------------------------------------------------------
(* resourceCloudflareTunnelRouteImport *)

\* the limit handed to strings.SplitN
SplitLimit == 4

\* the index the 4-piece branch reads the virtual network id from
VNetIndex == 4

\* dd.id is the identifier the user gave.  d is the record the handler
\* returns to the framework (EmptyData for nil), left the record as the
\* handler's calls left it
resourceCloudflareTunnelRouteImport(dd, rem, failList) ==
  LET attributes == SplitN(dd.id, SplitLimit)
      accountID == attributes[1]
      network == Sprintf2(attributes[2], attributes[3])
      vnet == GoIndex(attributes, VNetIndex)
      d1 == IF Len(attributes) = 4
              THEN [dd EXCEPT !.id = Sprintf2(network, vnet.val),
                              !.virtual_network_id = accountID]
              ELSE [dd EXCEPT !.id = network]
      d2 == [d1 EXCEPT !.account_id = accountID, !.network = network]
      rd == resourceCloudflareTunnelRouteRead(d2, rem, failList)
  IN  IF Len(attributes) # 3 /\ Len(attributes) # 4
        THEN [d |-> EmptyData, left |-> dd, remote |-> rem, outcome |-> "invalid id",
              mid |-> dd, listed |-> "none", first |-> NoRoute]
      ELSE IF Len(attributes) = 4 /\ vnet.panic
        THEN [d |-> EmptyData, left |-> dd, remote |-> rem, outcome |-> "panic",
              mid |-> dd, listed |-> "none", first |-> NoRoute]
      ELSE IF rd.err
        THEN [d |-> EmptyData, left |-> rd.d, remote |-> rem, outcome |-> "failed to read",
              mid |-> d2, listed |-> rd.listed, first |-> rd.first]
      ELSE [d |-> rd.d, left |-> rd.d, remote |-> rem, outcome |-> "ok",
            mid |-> d2, listed |-> rd.listed, first |-> rd.first]

-----------------------------------------------------------------------------
(* The state machine *)

\* the record of an operation kept in last.  again: a Read that follows a
\* Read; clean: every operation since the last successful Create was a
\* successful Create, Read or Update; prior: the comment the route an Update
\* addresses had before it
Done(op, handed, left, r, prior) ==
  [op |-> op, outcome |-> r.outcome, given |-> IF op = "Import" THEN handed.id ELSE Empty,
   kept |-> (left = handed), mid |-> r.mid, left |-> left, listed |-> r.listed,
   first |-> r.first, prior |-> prior,
   again |-> (op = "Read" /\ last.op = "Read"),
   clean |-> /\ r.outcome = "ok"
             /\ \/ op = "Create"
                \/ op \in {"Read", "Update"} /\ last.clean]

Other(op) ==
  [op |-> op, outcome |-> "ok", given |-> Empty, kept |-> TRUE, mid |-> d, left |-> d,
   listed |-> "none", first |-> NoRoute, prior |-> Empty, again |-> FALSE,
   clean |-> last.clean]

\* which remote call of an operation fails: none, the mutating call, or
\* the ListTunnelRoutes of the read that follows it
Faults == {"none", "call", "list"}

Init ==
  /\ d = EmptyData
  /\ remote = {}
  /\ last = [op |-> "none", outcome |-> "ok", given |-> Empty, kept |-> TRUE,
             mid |-> EmptyData, left |-> EmptyData, listed |-> "none", first |-> NoRoute,
             prior |-> Empty, again |-> FALSE, clean |-> FALSE]

\* the framework hands Create the planned record of a resource the state
\* does not hold
Create ==
  /\ d.id = Empty
  /\ Cardinality(remote) < MaxRoutes
  /\ \E tunnel \in Tunnels, network \in Networks, comment \in Comments,
        vnet \in {Empty} \cup VNets, fault \in Faults :
       LET planned == [id |-> Empty, account_id |-> Account, tunnel_id |-> tunnel,
                       network |-> network, comment |-> comment,
                       virtual_network_id |-> vnet]
       IN  \E r \in {resourceCloudflareTunnelRouteCreate(planned, remote, fault = "call", fault = "list")} :
             /\ d' = r.d
             /\ remote' = r.remote
             /\ last' = Done("Create", planned, r.d, r, Empty)

\* refresh of a resource the state holds
Read ==
  /\ d.id # Empty
  /\ \E failList \in BOOLEAN :
       \E rd \in {resourceCloudflareTunnelRouteRead(d, remote, failList)} :
         /\ d' = rd.d
         /\ UNCHANGED remote
         /\ last' = Done("Read", d, rd.d,
                         [outcome |-> IF rd.err THEN "error" ELSE "ok", mid |-> d,
                          listed |-> rd.listed, first |-> rd.first], Empty)

\* the framework hands Update the record with the changed configuration
Update ==
  /\ d.id # Empty
  /\ \E tunnel \in Tunnels, network \in Networks, comment \in Comments, fault \in Faults :
       LET planned == [d EXCEPT !.tunnel_id = tunnel, !.network = network,
                                !.comment = comment]
           old == RoutesAt(remote, planned.network, planned.virtual_network_id)
           prior == IF old = {} THEN Empty ELSE (CHOOSE o \in old : TRUE).Comment
       IN  \E r \in {resourceCloudflareTunnelRouteUpdate(planned, remote, fault = "call", fault = "list")} :
             /\ planned # d
             /\ d' = r.d
             /\ remote' = r.remote
             /\ last' = Done("Update", planned, r.d, r, prior)

Delete ==
  /\ d.id # Empty
  /\ \E failDelete \in BOOLEAN :
       \E r \in {resourceCloudflareTunnelRouteDelete(d, remote, failDelete)} :
         /\ d' = r.d
         /\ remote' = r.remote
         /\ last' = Done("Delete", d, r.d, r, Empty)

\* the framework hands Import an empty record whose id is the user's string,
\* for a resource the state does not hold
Import ==
  /\ d.id = Empty
  /\ \E id \in ImportIds, failList \in BOOLEAN :
       LET given == [EmptyData EXCEPT !.id = id]
       IN  \E r \in {resourceCloudflareTunnelRouteImport(given, remote, failList)} :
             /\ d' = r.d
             /\ remote' = r.remote
             /\ last' = Done("Import", given, r.left, r, Empty)

\* another client of the account creates or changes a route
RemotePut ==
  \E network \in Networks, vnet \in VNets, tunnel \in Tunnels, comment \in Comments :
    LET route == [TunnelID |-> tunnel, Network |-> network, Comment |-> comment,
                  VirtualNetworkID |-> vnet]
        next == (remote \ RoutesAt(remote, network, vnet)) \cup {route}
    IN  /\ route \notin remote
        /\ Cardinality(next) <= MaxRoutes
        /\ remote' = next
        /\ UNCHANGED d
        /\ last' = Other("RemotePut")

\* another client of the account deletes a route
RemoteDrop ==
  \E route \in remote :
    /\ remote' = remote \ {route}
    /\ UNCHANGED d
    /\ last' = Other("RemoteDrop")

Next == Create \/ Read \/ Update \/ Delete \/ Import \/ RemotePut \/ RemoteDrop

Spec == Init /\ [][Next]_vars

-----
(* Properties *)

\* the identifier the spec gives a record: the network, joined by "/" to the
\* virtual network id when there is one
Composite(network, virtualNetworkID) ==
  IF virtualNetworkID = Empty THEN network ELSE network \o <<Slash>> \o virtualNetworkID

ReadEntered == last.listed # "none"

\* C1: a Create whose remote create call succeeded leaves, after the Read it
\* performs, the identifier equal to the desired network when the desired
\* virtual network id is empty, and to network "/" virtualNetworkID otherwise
C1_CreateIdentifier ==
  (last.op = "Create" /\ ReadEntered) =>
      d.id = Composite(last.mid.network, last.mid.virtual_network_id)

C1_Witness ==
  /\ last.op = "Create" /\ last.outcome = "ok" /\ last.listed = "found"
  /\ last.mid.virtual_network_id # Empty
  /\ d.id = last.mid.network \o <<Slash>> \o last.mid.virtual_network_id

\* C2: Import accepts both documented formats: "accountID/network" gives
\* account_id, network, identifier = network and no virtual network;
\* "accountID/network/virtualNetworkID" gives account_id, network,
\* virtual_network_id and identifier = network "/" virtualNetworkID; neither
\* fails, and the record is so when Read is entered
C2_ImportBothFormats ==
  last.op = "Import" =>
    /\ \A n \in Networks :
         last.given = Account \o <<Slash>> \o n =>
           /\ ReadEntered
           /\ last.mid = [EmptyData EXCEPT !.id = n, !.account_id = Account, !.network = n]
    /\ \A n \in Networks, v \in VNets :
         last.given = Account \o <<Slash>> \o n \o <<Slash>> \o v =>
           /\ ReadEntered
           /\ last.mid = [EmptyData EXCEPT !.id = n \o <<Slash>> \o v,
                                           !.account_id = Account, !.network = n,
                                           !.virtual_network_id = v]

\* the part of C2 the code meets: the format without a virtual network
C2_ImportThreeSegments ==
  last.op = "Import" =>
    \A n \in Networks :
      last.given = Account \o <<Slash>> \o n =>
        /\ ReadEntered
        /\ last.mid = [EmptyData EXCEPT !.id = n, !.account_id = Account, !.network = n]

\* C3: Import of an identifier whose number of "/"-delimited segments is
\* neither 3 nor 4 fails with the invalid-identifier error, calls nothing
\* remote and sets no field of the record
C3_ImportRejectsOtherCounts ==
  (last.op = "Import" /\ CountSegments(last.given) \notin {3, 4}) =>
    /\ last.outcome = "invalid id"
    /\ ~ReadEntered
    /\ last.kept

\* the part of C3 the code meets: fewer than 3 segments
C3_ImportRejectsShort ==
  (last.op = "Import" /\ CountSegments(last.given) < 3) =>
    /\ last.outcome = "invalid id"
    /\ ~ReadEntered
    /\ last.kept

\* C4: whenever Create, Update, Delete or Read returns an error the record is
\* what the operation was handed, and a Create that returns an error created
\* no route
C4_NoPartialFailure ==
  [][(last'.op \in {"Create", "Update", "Delete", "Read"} /\ last'.outcome = "error") =>
       /\ last'.kept
       /\ (last'.op = "Create" => remote' = remote)]_vars

\* C4 as amended: whenever Update, Delete or Read returns an error, or Create
\* returns the error of its remote create call, the record is what the
\* operation was handed, and in the latter case no route was created; a
\* Create that returns the error of its Read has set the identifier and has
\* created the route
C4_FailureLeavesRecord ==
  [][/\ (last'.op \in {"Update", "Delete", "Read"} /\ last'.outcome = "error") => last'.kept
     /\ (last'.op = "Create" /\ last'.outcome = "error" /\ ~ReadEntered') =>
          (last'.kept /\ remote' = remote)
     /\ (last'.op = "Create" /\ last'.outcome = "error" /\ ReadEntered') =>
          (~last'.kept /\ d'.id # Empty /\ remote' # remote)]_vars

C4_Witness ==
  /\ last.op = "Update" /\ last.outcome = "error" /\ last.listed = "error"
  /\ last.kept /\ d = last.mid

\* C5: when ListTunnelRoutes returns zero routes, Read sets the identifier to
\* empty, returns no error and leaves every other field unchanged
C5_AbsenceClearsIdOnly ==
  last.listed = "empty" =>
    /\ last.outcome = "ok"
    /\ last.left.id = Empty
    /\ last.left.tunnel_id = last.mid.tunnel_id
    /\ last.left.network = last.mid.network
    /\ last.left.comment = last.mid.comment
    /\ last.left.virtual_network_id = last.mid.virtual_network_id
    /\ last.left.account_id = last.mid.account_id

C5_Witness ==
  /\ last.op = "Read" /\ last.listed = "empty" /\ last.outcome = "ok"
  /\ last.mid.id # Empty /\ last.mid.tunnel_id # Empty /\ last.mid.comment # Empty
  /\ d.id = Empty /\ d.comment = last.mid.comment

\* C6: when virtual_network_id is empty on entry to Read it is empty after
\* Read whatever the remote answered; when it is not empty Read stores the
\* value of the route returned
C6_VirtualNetworkCompat ==
  ReadEntered =>
    /\ last.mid.virtual_network_id = Empty => last.left.virtual_network_id = Empty
    /\ (last.mid.virtual_network_id # Empty /\ last.listed = "found") =>
         last.left.virtual_network_id = last.first.VirtualNetworkID

C6_Witness ==
  /\ last.listed = "found"
  /\ last.mid.virtual_network_id = Empty
  /\ last.first.VirtualNetworkID # Empty
  /\ d.virtual_network_id = Empty

\* C7: when the first route returned has an empty comment and the record a
\* non-empty one, Read leaves the record's comment; when the returned comment
\* is non-empty, Read stores it
C7_CommentPreserved ==
  last.listed = "found" =>
    /\ (last.first.Comment = Empty /\ last.mid.comment # Empty) =>
         last.left.comment = last.mid.comment
    /\ last.first.Comment # Empty => last.left.comment = last.first.Comment

C7_Witness ==
  /\ last.listed = "found"
  /\ last.first.Comment = Empty
  /\ last.mid.comment # Empty
  /\ d.comment = last.mid.comment

\* C8: after a successful Update whose desired comment is absent, the remote
\* route of (network, virtualNetworkID) has an empty comment, whatever it had
\* before, and the desired tunnel
C8_UpdateFullReplace ==
  (last.op = "Update" /\ last.outcome = "ok" /\ last.mid.comment = Empty) =>
    /\ RoutesAt(remote, last.mid.network, last.mid.virtual_network_id) # {}
    /\ \A r \in RoutesAt(remote, last.mid.network, last.mid.virtual_network_id) :
         r.Comment = Empty /\ r.TunnelID = last.mid.tunnel_id

C8_Witness ==
  /\ last.op = "Update" /\ last.outcome = "ok" /\ last.mid.comment = Empty
  /\ last.prior # Empty
  /\ \E r \in remote : r.Network = d.network /\ r.Comment = Empty

\* C9: of two consecutive Reads that the remote answers alike (both with an
\* error or both with its routes), the second leaves the record as the first
\* left it and returns what the first returned
C9_ReadIdempotent ==
  [][(/\ last.op = "Read" /\ last'.op = "Read"
      /\ (last.listed = "error") = (last'.listed = "error")) =>
       (d' = d /\ last'.outcome = last.outcome)]_vars

C9_Witness ==
  /\ last.op = "Read" /\ last.again
  /\ last.listed = "found" /\ last.outcome = "ok"
  /\ last.kept

\* C10: after successful Create, Read and Update operations only, a non-empty
\* identifier is the stored network, joined to the stored virtual network id
\* when there is one
C10_IdentifierConsistent ==
  (last.clean /\ d.id # Empty) => d.id = Composite(d.network, d.virtual_network_id)

====
